---- MODULE Spec2Model ----
(***************************************************************************)
(* Error Core (err_core.c / err_core.h): the debounce / warning /          *)
(* escalation engine of one EC_instance_t, in the default build            *)
(* (EC_TICK_FROM_FUNC = 0, EC_TIME_t = volatile uint32_t, 32-bit int).     *)
(*                                                                         *)
(* A 64-bit register is the set of its set bit positions.  A 32-bit tick   *)
(* is the pair <<high 16 bits, low 16 bits>>, so that tick arithmetic is   *)
(* exactly arithmetic modulo 2^32.                                         *)
(***************************************************************************)
EXTENDS Integers, Sequences, FiniteSets, TLC

\* ------------------------------------------------------------------ bounds
\* Number of tick increments in a behaviour of a small instance.
MaxElapsed == 4
\* Number of tick increments in a behaviour of the 64-condition instance.
MaxElapsedFull == 1
\* Largest TimeToErrorRegister of the single-condition tables.
MaxTTER == 2
\* Largest TimeToResetWarning of the single-condition tables.
MaxTTRW == 3
\* Largest WarningsToError of the single-condition tables.
MaxWarnings == 3
\* Cap of the history counter of qualifying fault episodes.
MaxEpisodes == 3
\* Largest number of ticks before the wraparound at which a timestamp of
\* the time base comparison is stored.
MaxBefore == 2
\* Largest elapsed time of the time base comparison.
MaxDelta == 3
\* Largest threshold of the time base comparison.
MaxThreshold == 3

\* ------------------------------------------------------- program constants
\* EC_err_state_t
EC_NERR == 0
EC_ERR == 1
\* Width of ErrorReg / WarningReg (uint64_t) and the largest NumberOfErrors.
RegBits == 64
\* Width of int, the type of the literal 1 in "1 << ErrorNumber".
IntBits == 32
\* uint8_t WarningCnt : 7 holds 0..127.
WarningCntMod == 128
\* One 16-bit half of the uint32_t time base.
LimbMod == 65536
\* Largest value of the uint8_t ErrorNumber parameter.
MaxErrorNumber == 255

\* ---------------------------------------------------------- EC_TIME_t
\* The uint32_t value of a small natural number.
T32(n) == <<0, n>>

\* a + 1 in uint32_t.
TimeInc(a) ==
    IF a[2] = LimbMod - 1 THEN <<(a[1] + 1) % LimbMod, 0>> ELSE <<a[1], a[2] + 1>>

\* a - b in uint32_t (modulo 2^32).
TimeSub(a, b) ==
    LET lo == a[2] - b[2]
        borrow == IF lo < 0 THEN 1 ELSE 0
    IN  <<(a[1] - b[1] - borrow) % LimbMod, lo % LimbMod>>

\* a >= b on uint32_t values.
TimeGeq(a, b) == a[1] > b[1] \/ (a[1] = b[1] /\ a[2] >= b[2])

\* ------------------------------------------------------------------- state
VARIABLES
    ErrorReg,        \* Instance->ErrorReg: set of set bit positions
    WarningReg,      \* Instance->WarningReg: set of set bit positions
    RuntimeData,     \* Instance->RuntimeData[i]: the EC_runtimeData_t records
    Errors,          \* Instance->Errors[i]: the const EC_error_t table
    NumberOfErrors,  \* Instance->NumberOfErrors
    tick,            \* the registered tick variable, *EC_tick
    elapsed,         \* history: tick increments since the instance was set up
    op,              \* history: the operation that ran last
    arg,             \* history: its ErrorNumber argument (0 if none), or the
                     \*   values it read from the tick variable
    ret,             \* history: its return value (0 if none)
    called,          \* history: the check functions it called, in call order,
                     \*   as pairs <<condition, value returned>>
    raised,          \* history: conditions escalated by EC_poll (polled) and
                     \*   found faulted by EC_checkError (forced) since the
                     \*   last EC_clearErr
    hist             \* history per condition: observed fault episodes

vars == <<ErrorReg, WarningReg, RuntimeData, Errors, NumberOfErrors, tick,
          elapsed, op, arg, ret, called, raised, hist>>

\* EC_runtimeData_t of a zero-initialised runtime array.
ZeroRuntime ==
    [LastReg |-> T32(0), LastNoErr |-> T32(0), WarningCnt |-> 0, WarningPending |-> 0]

\* An EC_error_t entry; ErrFunc is TRUE when the pointer is not NULL.
ErrorDef(f, ttr, trw, wte) ==
    [ErrFunc |-> f, TimeToErrorRegister |-> T32(ttr),
     TimeToResetWarning |-> T32(trw), WarningsToError |-> wte]

\* An entry without a check function.
NoErrFunc == ErrorDef(FALSE, 0, 0, 0)

\* The table of the 64-condition instance: two conditions carry a check
\* function, one below bit 32 and one above bit 31.
FullTable ==
    [i \in 0 .. RegBits - 1 |->
        CASE i = 0  -> ErrorDef(TRUE, 1, 1, 1)
          [] i = 32 -> ErrorDef(TRUE, 0, 1, 1)
          [] OTHER  -> NoErrFunc]

\* Tables of a single-condition instance, over the bounded parameter sets.
SingleTables ==
    { [i \in {0} |-> ErrorDef(TRUE, ttr, trw, wte)] :
        ttr \in {0, MaxTTER}, trw \in {0, 1, MaxTTRW}, wte \in 1 .. MaxWarnings }

\* The table of a two-condition instance.
PairTable == <<ErrorDef(TRUE, 1, 2, 2), ErrorDef(TRUE, 0, 1, 1)>>

\* The tables EC_init is called with for a small instance.
Tables == SingleTables \cup {[i \in {0, 1} |-> PairTable[i + 1]]}

\* Tick values at which the instance is set up: 0, and a value two ticks
\* before the uint32_t wraparound.
StartTicks == {T32(0), <<LimbMod - 1, LimbMod - 2>>}

\* History record of one condition.
\*   freeAt:   elapsed time at which the condition was last known fault-free
\*             (set-up, a fault-free evaluation by EC_poll, EC_clearErr)
\*   regAt:    elapsed time of the last registration event (-1: none)
\*   warnAt:   elapsed time at which the last registration event raised a
\*             warning (-1: there was none, or it escalated)
\*   clearAt:  elapsed time of the last EC_clearErr (-1: none)
\*   clearedSince: EC_clearErr was called after the last registration event
\* and, for as long as the instance has been driven by EC_poll alone:
\*   freeSeen: EC_poll saw the condition fault-free since the last
\*             registration event
\*   episodes: registration events, each after an observed fault of at least
\*             TimeToErrorRegister ticks that began after the cooldown of the
\*             previous one had expired
\*   clean:    every registration event was such an episode
ZeroHist ==
    [freeAt |-> 0, regAt |-> -1, warnAt |-> -1, clearAt |-> -1, clearedSince |-> FALSE,
     freeSeen |-> FALSE, episodes |-> 0, clean |-> TRUE]

\* The history once EC_checkError or EC_clearErr has been called.
NotPollAlone(h) == [h EXCEPT !.freeSeen = FALSE, !.episodes = 0, !.clean = FALSE]

\* Conditions of the instance.
Conds == 0 .. NumberOfErrors - 1

\* Conditions with a check function.
PredIdx == {i \in Conds : Errors[i].ErrFunc}

\* The small natural number a bounded uint32_t duration stands for.
Ticks(t) == t[1] * LimbMod + t[2]

\* Zero-initialised EC_instance_t and runtime array, and
\* EC_init(Instance, table, RuntimeData, number of entries) done.
InitInstance(table) ==
    /\ Errors = table
    /\ NumberOfErrors = Cardinality(DOMAIN table)
    /\ ErrorReg = {}
    /\ WarningReg = {}
    /\ RuntimeData = [i \in DOMAIN table |-> ZeroRuntime]
    /\ elapsed = 0
    /\ op = "init"
    /\ arg = 0
    /\ ret = 0
    /\ called = <<>>
    /\ raised = [polled |-> {}, forced |-> {}]
    /\ hist = [i \in DOMAIN table |-> ZeroHist]

\* The same with EC_tick_variable_register done.
InitWith(table) == InitInstance(table) /\ tick \in StartTicks

\* A small instance.
Init == \E table \in Tables : InitWith(table)

\* The 64-condition instance.
InitFull == InitWith(FullTable)

\* A single-condition instance in which a warning can be registered and
\* outlast the poll that registered it: WarningsToError > 1 and a nonzero
\* cooldown.
InitWarning ==
    \E table \in SingleTables :
        /\ table[0].WarningsToError > 1
        /\ table[0].TimeToResetWarning # T32(0)
        /\ InitWith(table)

\* Lines 45-56: EC_init called again on the instance, with the same table
\* and with the same runtime array or a zeroed one.  It assigns Errors,
\* NumberOfErrors and RuntimeData, and nothing else.
EC_init ==
    /\ Errors' = Errors
    /\ NumberOfErrors' = NumberOfErrors
    /\ RuntimeData' \in {RuntimeData, [i \in Conds |-> ZeroRuntime]}
    /\ op' = "init"
    /\ arg' = 0
    /\ ret' = 0
    /\ called' = <<>>
    /\ hist' = [i \in Conds |-> NotPollAlone(hist[i])]
    /\ UNCHANGED <<ErrorReg, WarningReg, tick, elapsed, raised>>

\* Lines 45-56: EC_init called again on a two-condition instance with
\* NumberOfErrors = 1: the first entry of the table and the first record of
\* the runtime array (as it is, or zeroed).  The registers keep the bits of
\* the condition that is no longer in the table.
EC_initShorter ==
    /\ NumberOfErrors = 2
    /\ Errors' = [i \in {0} |-> Errors[0]]
    /\ NumberOfErrors' = 1
    /\ RuntimeData' \in {[i \in {0} |-> RuntimeData[0]], [i \in {0} |-> ZeroRuntime]}
    /\ op' = "init"
    /\ arg' = 0
    /\ ret' = 0
    /\ called' = <<>>
    /\ hist' = [i \in {0} |-> NotPollAlone(hist[0])]
    /\ UNCHANGED <<ErrorReg, WarningReg, tick, elapsed, raised>>

\* ------------------------------------------------------------------ EC_poll
\* Mutant: line 68 without the test of WarningPending.
PollEvaluatesIgnoringPending(st, i) ==
    /\ i \notin st.ErrorReg
    /\ Errors[i].ErrFunc

\* Mutant: line 68 without the test of the error bit.
PollEvaluatesIgnoringError(st, i) ==
    /\ Errors[i].ErrFunc
    /\ st.RuntimeData[i].WarningPending = 0

\* Line 68: whether EC_poll calls the check function of condition i.
PollEvaluates(st, i) ==
    /\ i \notin st.ErrorReg
    /\ Errors[i].ErrFunc
    /\ st.RuntimeData[i].WarningPending = 0

\* Mutant: line 75 without the debounce comparison.
DebounceElapsedNoWait(st, i, now) == TRUE

\* Line 75: the debounce comparison.
DebounceElapsed(st, i, now) ==
    TimeGeq(TimeSub(now, st.RuntimeData[i].LastNoErr), Errors[i].TimeToErrorRegister)

\* Mutant: lines 77-89 without the reset of WarningCnt at escalation.
PollRegisterKeepingCnt(st, i, error, now) ==
    LET cnt == (st.RuntimeData[i].WarningCnt + 1) % WarningCntMod
    IN  IF cnt >= Errors[i].WarningsToError
        THEN [st EXCEPT
                !.ErrorReg = @ \cup (IF error = 1 THEN {i} ELSE {}),
                !.WarningReg = @ \ {i},
                !.RuntimeData[i].WarningCnt = cnt,
                !.RuntimeData[i].LastReg = now,
                !.registered = @ \cup {i},
                !.escalated = @ \cup {i}]
        ELSE [st EXCEPT
                !.WarningReg = @ \cup {i},
                !.RuntimeData[i].WarningCnt = cnt,
                !.RuntimeData[i].WarningPending = 1,
                !.RuntimeData[i].LastReg = now,
                !.registered = @ \cup {i}]

\* Lines 77-89: a registration event of condition i; error is the nonzero
\* value the check function returned.
PollRegister(st, i, error, now) ==
    LET cnt == (st.RuntimeData[i].WarningCnt + 1) % WarningCntMod
    IN  IF cnt >= Errors[i].WarningsToError
        THEN [st EXCEPT
                !.ErrorReg = @ \cup (IF error = 1 THEN {i} ELSE {}),
                !.WarningReg = @ \ {i},
                !.RuntimeData[i].WarningCnt = 0,
                !.RuntimeData[i].LastReg = now,
                !.registered = @ \cup {i},
                !.escalated = @ \cup {i}]
        ELSE [st EXCEPT
                !.WarningReg = @ \cup {i},
                !.RuntimeData[i].WarningCnt = cnt,
                !.RuntimeData[i].WarningPending = 1,
                !.RuntimeData[i].LastReg = now,
                !.registered = @ \cup {i}]

\* Lines 68-91: evaluation of condition i; error is what its check function
\* returns if it is called, t the values read from the tick variable.
PollCheck(st, i, error, t) ==
    IF ~PollEvaluates(st, i) THEN st
    ELSE LET ev == [st EXCEPT !.called = Append(@, <<i, error>>)]
         IN  IF error = 0
             THEN [ev EXCEPT !.RuntimeData[i].LastNoErr = t.noErr,
                             !.free = @ \cup {i}]
             ELSE IF DebounceElapsed(ev, i, t.debounce)
                  THEN PollRegister(ev, i, error, t.reg)
                  ELSE ev

\* Mutant: line 94 with "= 0" in place of "&= ~mask".
PollSweepWholeWarningReg(st, i, now) ==
    IF TimeGeq(TimeSub(now, st.RuntimeData[i].LastReg), Errors[i].TimeToResetWarning)
    THEN [st EXCEPT
            !.WarningReg = {},
            !.RuntimeData[i].WarningCnt = 0,
            !.RuntimeData[i].WarningPending = 0]
    ELSE st

\* Mutant: lines 92-97 skipped for a condition whose error bit is set.
PollSweepUnlessError(st, i, now) ==
    IF i \notin st.ErrorReg
          /\ TimeGeq(TimeSub(now, st.RuntimeData[i].LastReg), Errors[i].TimeToResetWarning)
    THEN [st EXCEPT
            !.WarningReg = @ \ {i},
            !.RuntimeData[i].WarningCnt = 0,
            !.RuntimeData[i].WarningPending = 0]
    ELSE st

\* Mutant: lines 92-97 without the cooldown sweep.
PollSweepNever(st, i, now) == st

\* Lines 92-97: the cooldown sweep of condition i.
PollSweep(st, i, now) ==
    IF TimeGeq(TimeSub(now, st.RuntimeData[i].LastReg), Errors[i].TimeToResetWarning)
    THEN [st EXCEPT
            !.WarningReg = @ \ {i},
            !.RuntimeData[i].WarningCnt = 0,
            !.RuntimeData[i].WarningPending = 0]
    ELSE st

\* Lines 66-98: the loop of EC_poll from condition i on; res[j] is what the
\* check function of condition j returns (conditions without one are not in
\* its domain).  The state after iteration i is bound as a value (nxt) before
\* the next iteration runs on it.
RECURSIVE PollLoop(_, _, _, _)
PollLoop(st, i, res, t) ==
    IF i >= NumberOfErrors THEN st
    ELSE LET error == IF i \in DOMAIN res THEN res[i] ELSE EC_NERR
         IN  CHOOSE out \in { PollLoop(nxt, i + 1, res, t) :
                                 nxt \in {PollSweep(PollCheck(st, i, error, t), i, t.sweep)} } : TRUE

\* The instance as EC_poll finds it, with the empty log of one call:
\* predicates called, conditions seen fault-free, registered, escalated.
PollStart ==
    [ErrorReg |-> ErrorReg, WarningReg |-> WarningReg, RuntimeData |-> RuntimeData,
     called |-> <<>>, free |-> {}, registered |-> {}, escalated |-> {}]

\* History of condition i after a poll with log st.
HistAfterPoll(st, i) ==
    LET h == hist[i]
        qualifies ==
            /\ elapsed - h.freeAt >= Ticks(Errors[i].TimeToErrorRegister)
            /\ h.regAt >= 0 =>
                 /\ h.freeSeen
                 /\ h.freeAt >= h.regAt + Ticks(Errors[i].TimeToResetWarning)
    IN  IF i \in st.free
        THEN [h EXCEPT !.freeAt = elapsed, !.freeSeen = h.clean]
        ELSE IF i \in st.registered
             THEN [h EXCEPT
                     !.regAt = elapsed,
                     !.warnAt = IF i \in st.escalated THEN -1 ELSE elapsed,
                     !.clearedSince = FALSE,
                     !.freeSeen = FALSE,
                     !.episodes = IF h.clean /\ qualifies /\ @ < MaxEpisodes
                                  THEN @ + 1 ELSE @,
                     !.clean = @ /\ qualifies]
             ELSE h

\* EC_poll(Instance), the tick variable not changing during the call.
EC_poll ==
    \E res \in [PredIdx -> {EC_NERR, EC_ERR}] :
        \E st \in {PollLoop(PollStart, 0, res,
                    [noErr |-> tick, debounce |-> tick, reg |-> tick, sweep |-> tick])} :
            /\ ErrorReg' = st.ErrorReg
            /\ WarningReg' = st.WarningReg
            /\ RuntimeData' = st.RuntimeData
            /\ called' = st.called
            /\ raised' = [raised EXCEPT !.polled = @ \cup st.escalated]
            /\ hist' = [i \in Conds |-> HistAfterPoll(st, i)]
            /\ op' = "poll"
            /\ arg' = 0
            /\ ret' = 0
            /\ UNCHANGED <<Errors, NumberOfErrors, tick, elapsed>>

\* ------------------------------------------------------------- time source
\* The tick interrupt increments the registered tick variable.
Tick ==
    /\ elapsed < (IF NumberOfErrors = RegBits THEN MaxElapsedFull ELSE MaxElapsed)
    /\ tick' = TimeInc(tick)
    /\ elapsed' = elapsed + 1
    /\ op' = "tick"
    /\ arg' = 0
    /\ ret' = 0
    /\ called' = <<>>
    /\ UNCHANGED <<ErrorReg, WarningReg, RuntimeData, Errors, NumberOfErrors, raised, hist>>

\* ------------------------------------------------------------ EC_getErrors
\* Lines 104-109.
EC_getErrors ==
    /\ ret' = ErrorReg
    /\ op' = "getErrors"
    /\ arg' = 0
    /\ called' = <<>>
    /\ UNCHANGED <<ErrorReg, WarningReg, RuntimeData, Errors, NumberOfErrors, tick,
                   elapsed, raised, hist>>

\* ----------------------------------------------------------- EC_checkError
\* The bits of the int 1 << n once converted to uint64_t.  Below bit 31 the
\* shift is defined.  At 31 it overflows int: the build yields INT_MIN, whose
\* conversion sign-extends to bits 31..63, or tests bit 31 alone.  From 32 on
\* the shift count exceeds the width of int: the build masks the count to
\* five bits, yields 0, or tests bit n of the 64-bit operand.
IntShift(n) ==
    IF n < IntBits - 1 THEN {{n}}
    ELSE IF n = IntBits - 1 THEN {IntBits - 1 .. RegBits - 1, {n}}
    ELSE { IF n % IntBits = IntBits - 1 THEN IntBits - 1 .. RegBits - 1
                                        ELSE {n % IntBits},
           {},
           {n} }

\* Line 132: the test "Instance->ErrorReg & (1 << ErrorNumber)".
CheckErrorSet(reg, mask) == reg \cap mask # {}

\* Mutant: line 141 with "=" in place of "|=".
CheckErrorRegAssign(reg, n, error) == IF error = 1 THEN {n} ELSE {}

\* Mutant: line 141 without the cast, the shift done in int.
CheckErrorRegIntShift(reg, n, error) ==
    reg \cup (IF error = 1 THEN {n % IntBits} ELSE {})

\* Line 141: "Instance->ErrorReg |= (uint64_t)error << ErrorNumber".
CheckErrorReg(reg, n, error) == reg \cup (IF error = 1 THEN {n} ELSE {})

\* ErrorNumber arguments tried: the conditions with a check function, one
\* without, and the last condition.
CheckArgs == PredIdx \cup ({1, NumberOfErrors - 1} \cap Conds)

\* Lines 127-147.
EC_checkError ==
    \E n \in CheckArgs, error \in {EC_NERR, EC_ERR} :
        \E mask \in IntShift(n) :
            /\ op' = "checkError"
            /\ arg' = n
            /\ IF CheckErrorSet(ErrorReg, mask)
               THEN /\ ret' = EC_ERR
                    /\ called' = <<>>
                    /\ UNCHANGED <<ErrorReg, raised>>
               ELSE IF Errors[n].ErrFunc
                    THEN /\ called' = << <<n, error>> >>
                         /\ ErrorReg' = CheckErrorReg(ErrorReg, n, error)
                         /\ raised' = [raised EXCEPT
                                          !.forced = @ \cup (IF error = EC_ERR THEN {n} ELSE {})]
                         /\ ret' = error
                    ELSE /\ ret' = EC_NERR
                         /\ called' = <<>>
                         /\ UNCHANGED <<ErrorReg, raised>>
            /\ hist' = [i \in Conds |-> NotPollAlone(hist[i])]
            /\ UNCHANGED <<WarningReg, RuntimeData, Errors, NumberOfErrors, tick, elapsed>>

\* ---------------------------------------------------------- EC_getOneError
\* Lines 117 and 130: "assert(ErrorNumber <= 64)".
AssertErrorNumber(n) == n <= RegBits

\* ErrorNumber arguments tried around the end of the register.
EdgeArgs == {0, IntBits, RegBits - 1, RegBits, RegBits + 1, MaxErrorNumber}

\* Line 119: the bits of "(uint64_t)1 << ErrorNumber".  A shift by 64 is a
\* shift by the width of the type: the build masks the count to six bits
\* (bit 0) or yields 0.
WideShift(n) == IF n < RegBits THEN {{n}} ELSE {{n % RegBits}, {}}

\* Lines 114-122.  A failed assert aborts the program.
EC_getOneError ==
    \E n \in EdgeArgs :
        /\ arg' = n
        /\ called' = <<>>
        /\ IF AssertErrorNumber(n)
           THEN \E mask \in WideShift(n) :
                   /\ op' = "getOneError"
                   /\ ret' = IF ErrorReg \cap mask # {} THEN EC_ERR ELSE EC_NERR
           ELSE /\ op' = "abort"
                /\ ret' = 0
        /\ UNCHANGED <<ErrorReg, WarningReg, RuntimeData, Errors, NumberOfErrors, tick,
                       elapsed, raised, hist>>

\* Lines 127-147 for an ErrorNumber of 64 or more.  A failed assert aborts
\* the program.  ErrorNumber 64 passes the assert: line 132 shifts an int by
\* 64, line 137 reads Errors[64], past the end of the table (a null or a
\* non-null ErrFunc, returning either value), and line 141 shifts by 64.
EC_checkErrorOutOfRange ==
    \E n \in {m \in EdgeArgs : m >= RegBits} :
        /\ arg' = n
        /\ called' = <<>>
        /\ IF AssertErrorNumber(n)
           THEN \E mask \in IntShift(n), func \in BOOLEAN, error \in {EC_NERR, EC_ERR},
                   set \in WideShift(n) :
                   /\ op' = "checkError"
                   /\ IF CheckErrorSet(ErrorReg, mask)
                      THEN ret' = EC_ERR /\ UNCHANGED ErrorReg
                      ELSE IF func
                           THEN /\ ErrorReg' = ErrorReg \cup (IF error = 1 THEN set ELSE {})
                                /\ ret' = error
                           ELSE ret' = EC_NERR /\ UNCHANGED ErrorReg
           ELSE /\ op' = "abort"
                /\ ret' = 0
                /\ UNCHANGED ErrorReg
        /\ hist' = [i \in Conds |-> NotPollAlone(hist[i])]
        /\ UNCHANGED <<WarningReg, RuntimeData, Errors, NumberOfErrors, tick, elapsed, raised>>

\* ------------------------------------------------------------- EC_clearErr
\* Mutant: lines 156-160 without the write of LastNoErr.
ClearRuntimeKeepingLastNoErr(rt, now) == [rt EXCEPT !.WarningPending = 0]

\* Lines 156-160: the loop body for the runtime record rt.
ClearRuntime(rt, now) == [rt EXCEPT !.LastNoErr = now, !.WarningPending = 0]

\* Lines 152-163.
EC_clearErr ==
    /\ RuntimeData' = [i \in Conds |-> ClearRuntime(RuntimeData[i], tick)]
    /\ ErrorReg' = {}
    /\ op' = "clearErr"
    /\ arg' = 0
    /\ ret' = 0
    /\ called' = <<>>
    /\ raised' = [polled |-> {}, forced |-> {}]
    /\ hist' = [i \in Conds |->
                  NotPollAlone([hist[i] EXCEPT !.freeAt = elapsed, !.clearAt = elapsed,
                                               !.clearedSince = TRUE])]
    /\ UNCHANGED <<WarningReg, Errors, NumberOfErrors, tick, elapsed>>

\* ------------------------------------------------- no tick source registered
\* "EC_TIME_t *EC_tick = NULL" (line 29): the value of tick while no variable
\* is registered.
NoTick == <<>>

\* What a read of address 0 yields where it does not trap: 0, or the word a
\* vector table starts with.
NullWords == {T32(0), <<8192, 4096>>}

\* The instance set up, EC_tick_variable_register not called yet.
InitUnregistered ==
    /\ InitInstance([i \in {0} |-> ErrorDef(TRUE, 0, 1, 2)])
    /\ tick = NoTick

\* Lines 33-38: EC_tick_variable_register(Variable).
EC_tick_variable_register ==
    /\ tick = NoTick
    /\ tick' \in StartTicks
    /\ op' = "register"
    /\ arg' = 0
    /\ ret' = 0
    /\ called' = <<>>
    /\ UNCHANGED <<ErrorReg, WarningReg, RuntimeData, Errors, NumberOfErrors, elapsed,
                   raised, hist>>

\* EC_poll while EC_tick is NULL.  Condition 0 reaches a read of EC_GET_TICK,
\* "*(EC_tick)", at line 73 or 75 once its check function has been called, and
\* at line 92 otherwise: the read of address 0 traps before anything is
\* written, or yields a word of NullWords and the poll goes on with it.
EC_pollUnregistered ==
    /\ tick = NoTick
    /\ \E res \in [PredIdx -> {EC_NERR, EC_ERR}] :
          \/ /\ op' = "fault"
             /\ called' = IF PollEvaluates(PollStart, 0) THEN << <<0, res[0]>> >> ELSE <<>>
             /\ UNCHANGED <<ErrorReg, WarningReg, RuntimeData, raised, hist>>
          \/ \E word \in NullWords :
                \E st \in {PollLoop(PollStart, 0, res,
                            [noErr |-> word, debounce |-> word, reg |-> word, sweep |-> word])} :
                    /\ op' = "poll"
                    /\ ErrorReg' = st.ErrorReg
                    /\ WarningReg' = st.WarningReg
                    /\ RuntimeData' = st.RuntimeData
                    /\ called' = st.called
                    /\ raised' = [raised EXCEPT !.polled = @ \cup st.escalated]
                    /\ hist' = [i \in Conds |-> HistAfterPoll(st, i)]
    /\ arg' = 0
    /\ ret' = 0
    /\ UNCHANGED <<Errors, NumberOfErrors, tick, elapsed>>

\* EC_clearErr while EC_tick is NULL: line 158 reads "*(EC_tick)" for
\* condition 0 before anything is written.
EC_clearErrUnregistered ==
    /\ tick = NoTick
    /\ \/ /\ op' = "fault"
          /\ UNCHANGED <<ErrorReg, RuntimeData, raised, hist>>
       \/ \E word \in NullWords :
             /\ op' = "clearErr"
             /\ RuntimeData' = [i \in Conds |-> ClearRuntime(RuntimeData[i], word)]
             /\ ErrorReg' = {}
             /\ raised' = [polled |-> {}, forced |-> {}]
             /\ hist' = [i \in Conds |->
                           NotPollAlone([hist[i] EXCEPT !.freeAt = elapsed, !.clearAt = elapsed,
                                               !.clearedSince = TRUE])]
    /\ arg' = 0
    /\ ret' = 0
    /\ called' = <<>>
    /\ UNCHANGED <<WarningReg, Errors, NumberOfErrors, tick, elapsed>>

\* ------------------------------------------- the tick advancing during EC_poll
\* A single-condition instance.
InitSingle == \E table \in SingleTables : InitWith(table)

\* EC_TIME_t is volatile (err_core.h line 129) and EC_GET_TICK is "*(EC_tick)"
\* (line 31): each of lines 73, 75, 89 and 92 reads the tick variable anew.
\* The values the four reads yield for condition 0 when the tick interrupt
\* fires at most once during the call: the tick at entry up to some read,
\* the incremented tick from then on.  Line 73 or lines 75 and 89 come
\* before line 92.
InterruptedReads ==
    LET val(k) == IF k = 0 THEN tick ELSE TimeInc(tick)
    IN  { [noErr |-> val(n), debounce |-> val(d), reg |-> val(r), sweep |-> val(w)] :
            n \in 0 .. 1, d \in 0 .. 1, r \in 0 .. 1, w \in 0 .. 1 }
        \ { t \in [noErr : {tick, TimeInc(tick)}, debounce : {tick, TimeInc(tick)},
                    reg : {tick, TimeInc(tick)}, sweep : {tick, TimeInc(tick)}] :
              \/ t.noErr # tick /\ t.sweep = tick
              \/ t.debounce # tick /\ t.reg = tick
              \/ t.reg # tick /\ t.sweep = tick }

\* Lines 61-99 on a single-condition instance, the tick interrupt allowed to
\* fire during the call.
EC_pollInterrupted ==
    /\ NumberOfErrors = 1
    /\ \E res \in [PredIdx -> {EC_NERR, EC_ERR}], t \in InterruptedReads :
          \E st \in {PollLoop(PollStart, 0, res, t)} :
              /\ t.sweep # tick => elapsed < MaxElapsed
              /\ ErrorReg' = st.ErrorReg
              /\ WarningReg' = st.WarningReg
              /\ RuntimeData' = st.RuntimeData
              /\ called' = st.called
              /\ raised' = [raised EXCEPT !.polled = @ \cup st.escalated]
              /\ hist' = [i \in Conds |-> HistAfterPoll(st, i)]
              /\ tick' = t.sweep
              /\ elapsed' = IF t.sweep = tick THEN elapsed ELSE elapsed + 1
              /\ op' = "poll"
              /\ arg' = t
              /\ ret' = 0
    /\ UNCHANGED <<Errors, NumberOfErrors>>

\* ------------------------------------------------- the custom time bases
\* Widths of the unsigned types EC_TIME_BASE_TYPE_CUSTOM may name.
TimeBases == {8, 16, IntBits, RegBits}

\* A w-bit value is a sequence of limbs, most significant first: one limb
\* for 8 and 16 bits, 16-bit limbs for 32 and 64 bits.
LimbCount(w) == IF w < IntBits THEN 1 ELSE w \div 16

LimbModOf(w) == IF w = 8 THEN 256 ELSE LimbMod

\* The w-bit value of a small natural number n.
SmallTime(w, n) == [j \in 1 .. LimbCount(w) |-> IF j = LimbCount(w) THEN n ELSE 0]

\* The w-bit value 2^w - a, for a small a > 0.
NearWrap(w, a) ==
    [j \in 1 .. LimbCount(w) |->
        IF j = LimbCount(w) THEN LimbModOf(w) - a ELSE LimbModOf(w) - 1]

\* The borrow limb j of a - b takes from limb j - 1.
RECURSIVE BorrowFrom(_, _, _)
BorrowFrom(a, b, j) ==
    IF j > Len(a) THEN 0
    ELSE IF a[j] - b[j] - BorrowFrom(a, b, j + 1) < 0 THEN 1 ELSE 0

\* a - b modulo 2^w, for w of at least the width of int.
WideSub(a, b) ==
    [j \in 1 .. Len(a) |-> (a[j] - b[j] - BorrowFrom(a, b, j + 1)) % LimbMod]

\* a >= b on unsigned values of the same width, from limb j on.
RECURSIVE WideGeq(_, _, _)
WideGeq(a, b, j) ==
    IF j > Len(a) THEN TRUE
    ELSE IF a[j] # b[j] THEN a[j] > b[j]
    ELSE WideGeq(a, b, j + 1)

\* Lines 75 and 92: "EC_GET_TICK - stamp >= threshold" with EC_TIME_t a w-bit
\* unsigned type.  Operands narrower than int are promoted to int, and the
\* subtraction and the comparison are done in int; the others are
\* subtracted modulo 2^w and compared unsigned.
ElapsedAtLeast(w, now, stamp, threshold) ==
    IF w < IntBits
    THEN now[1] - stamp[1] >= threshold[1]
    ELSE WideGeq(WideSub(now, stamp), threshold, 1)

\* The tick delta ticks after it was 2^w - before.
TickAfter(w, before, delta) ==
    IF delta >= before THEN SmallTime(w, delta - before)
    ELSE NearWrap(w, before - delta)

\* One condition of a build with a w-bit time base: a timestamp stored
\* before ticks ahead of the wraparound, the tick delta ticks later, and the
\* threshold in both time fields of the table.
InitTimeBase ==
    \E w \in TimeBases, before \in 1 .. MaxBefore, delta \in 0 .. MaxDelta,
       threshold \in 0 .. MaxThreshold :
        /\ arg = [w |-> w, delta |-> delta, threshold |-> threshold]
        /\ tick = TickAfter(w, before, delta)
        /\ RuntimeData = [i \in {0} |->
               [LastReg |-> NearWrap(w, before), LastNoErr |-> NearWrap(w, before),
                WarningCnt |-> 0, WarningPending |-> 0]]
        /\ Errors = [i \in {0} |->
               [ErrFunc |-> TRUE, TimeToErrorRegister |-> SmallTime(w, threshold),
                TimeToResetWarning |-> SmallTime(w, threshold), WarningsToError |-> 1]]
        /\ NumberOfErrors = 1
        /\ ErrorReg = {}
        /\ WarningReg = {}
        /\ elapsed = delta
        /\ op = "init"
        /\ ret = FALSE
        /\ called = <<>>
        /\ raised = [polled |-> {}, forced |-> {}]
        /\ hist = [i \in {0} |-> ZeroHist]

\* Line 75: the debounce comparison of condition 0.
DebounceCompare ==
    /\ op = "init"
    /\ op' = "debounce"
    /\ ret' = ElapsedAtLeast(arg.w, tick, RuntimeData[0].LastNoErr,
                             Errors[0].TimeToErrorRegister)
    /\ UNCHANGED <<ErrorReg, WarningReg, RuntimeData, Errors, NumberOfErrors, tick,
                   elapsed, arg, called, raised, hist>>

\* Line 92: the cooldown comparison of condition 0.
CooldownCompare ==
    /\ op = "init"
    /\ op' = "cooldown"
    /\ ret' = ElapsedAtLeast(arg.w, tick, RuntimeData[0].LastReg,
                             Errors[0].TimeToResetWarning)
    /\ UNCHANGED <<ErrorReg, WarningReg, RuntimeData, Errors, NumberOfErrors, tick,
                   elapsed, arg, called, raised, hist>>

\* ------------------------------------------------------------ specifications
Next == EC_poll \/ EC_checkError \/ EC_clearErr \/ EC_getErrors \/ Tick

Spec == Init /\ [][Next]_vars

\* The 64-condition instance.
SpecFull == InitFull /\ [][Next]_vars

\* Polling alone.
PollNext == EC_poll \/ Tick

SpecPoll == Init /\ [][PollNext]_vars

\* A single condition that can be a warning; EC_poll keeps being called and
\* the tick keeps advancing (up to the horizon MaxElapsed of the model).
SpecLive == InitWarning /\ [][Next]_vars /\ WF_vars(EC_poll) /\ WF_vars(Tick)

\* A single-condition instance called with every ErrorNumber argument;
\* nothing runs after an abort.
InitArgs == InitWith([i \in {0} |-> ErrorDef(TRUE, 0, 1, 1)])

ArgsNext ==
    \/ op # "abort" /\ Next
    \/ op # "abort" /\ EC_getOneError
    \/ op # "abort" /\ EC_checkErrorOutOfRange

SpecArgs == InitArgs /\ [][ArgsNext]_vars

\* The instance used before and after EC_tick_variable_register; nothing
\* runs after a trap.
UnregisteredNext ==
    \/ op # "fault" /\ EC_tick_variable_register
    \/ op # "fault" /\ EC_pollUnregistered
    \/ op # "fault" /\ EC_clearErrUnregistered
    \/ op # "fault" /\ tick = NoTick /\ (EC_getErrors \/ EC_checkError)
    \/ op # "fault" /\ tick # NoTick /\ Next

SpecUnregistered == InitUnregistered /\ [][UnregisteredNext]_vars

\* The two elapsed-time comparisons of EC_poll in each time base.
TimeBaseNext == DebounceCompare \/ CooldownCompare

SpecTimeBase == InitTimeBase /\ [][TimeBaseNext]_vars

\* A single condition that can be a warning, with EC_init called again at
\* any time.
ReinitNext == Next \/ EC_init

SpecReinit == InitWarning /\ [][ReinitNext]_vars

\* A small instance, shortened by a second EC_init at any time.
FrameNext == Next \/ EC_initShorter

SpecFrame == Init /\ [][FrameNext]_vars

\* A single-condition instance polled while the tick interrupt is enabled.
InterruptNext == EC_pollInterrupted \/ EC_clearErr \/ Tick

SpecInterrupt == InitSingle /\ [][InterruptNext]_vars

\* ------------------------------------------------------------------ claims
\* Conditions whose check function the last operation called.
CalledConds == {called[j][1] : j \in 1 .. Len(called)}

\* C1 (as claimed): a condition with WarningsToError = k > 1, polled from a
\* zero-initialised instance, has its error bit set once k fault episodes
\* have been registered, each at least TimeToErrorRegister ticks long and
\* begun after the cooldown of the previous one had expired; after fewer
\* than k the error bit is clear, and the warning bit is set until its
\* cooldown expires.  Stated for the conditions with a nonzero cooldown.
C1_KthEpisodeSetsError ==
    \A i \in PredIdx :
        LET k == Errors[i].WarningsToError
            h == hist[i]
        IN  (k > 1 /\ h.clean /\ h.episodes > 0
                  /\ Ticks(Errors[i].TimeToResetWarning) > 0) =>
                /\ h.episodes >= k => i \in ErrorReg
                /\ h.episodes < k =>
                     /\ i \notin ErrorReg
                     /\ elapsed - h.regAt < Ticks(Errors[i].TimeToResetWarning)
                          => i \in WarningReg

\* C2 (as claimed): a condition with WarningsToError = 1 has its error bit set
\* by the poll that sees it faulted TimeToErrorRegister ticks or more after
\* it was last known fault-free, and by no poll that sees it faulted sooner.
C2_ErrorExactlyAtThreshold ==
    \A i \in PredIdx :
        LET h == hist[i]
            ttr == Ticks(Errors[i].TimeToErrorRegister)
        IN  Errors[i].WarningsToError = 1 =>
                /\ i \in ErrorReg => h.regAt - h.freeAt >= ttr
                /\ (op = "poll" /\ <<i, EC_ERR>> \in {called[j] : j \in 1 .. Len(called)}
                        /\ elapsed - h.freeAt >= ttr)
                     => i \in ErrorReg

\* C3: a set error bit stays set through every operation but EC_clearErr, and
\* EC_poll does not call the check function of a condition whose error bit
\* is set.
C3_ErrorBitsLatch ==
    [][\A i \in ErrorReg :
          /\ op' # "clearErr" => i \in ErrorReg'
          /\ op' = "poll" => i \notin CalledConds']_vars

\* EC_poll ran with the error bit of a simple debounced condition set: it did
\* not call the check function, and the bit is still set.
C3_Witness ==
    /\ op = "poll"
    /\ \E i \in PredIdx \cap ErrorReg :
          /\ Errors[i].WarningsToError = 1
          /\ i \notin CalledConds

\* C4 (as claimed): EC_clearErr leaves both registers 0 and, for every
\* condition, WarningCnt = 0, WarningPending = 0 and LastNoErr = current tick.
C4_ClearErrResetsAll ==
    op = "clearErr" =>
        /\ ErrorReg = {}
        /\ WarningReg = {}
        /\ \A i \in Conds :
              /\ RuntimeData[i].WarningCnt = 0
              /\ RuntimeData[i].WarningPending = 0
              /\ RuntimeData[i].LastNoErr = tick

\* C5 (as claimed): bit i of the warning register is set exactly when
\* WarningPending of condition i is.
C5_WarningBitIsPending ==
    \A i \in Conds : (i \in WarningReg) <=> (RuntimeData[i].WarningPending = 1)

\* C6 (as claimed): EC_checkError(n) on a condition with a check function
\* returns EC_ERR without calling it and without changing the instance when
\* bit n of the error register is set; when bit n is clear it calls the check
\* function once, sets bit n exactly if a fault is reported and returns what
\* was reported, whatever the other bits are.
C6_CheckErrorContract ==
    [][(op' = "checkError" /\ Errors[arg'].ErrFunc) =>
          IF arg' \in ErrorReg
          THEN /\ ret' = EC_ERR
               /\ called' = <<>>
               /\ UNCHANGED <<ErrorReg, WarningReg, RuntimeData>>
          ELSE /\ Len(called') = 1
               /\ called'[1] = <<arg', ret'>>
               /\ ErrorReg' = ErrorReg \cup (IF ret' = EC_ERR THEN {arg'} ELSE {})
               /\ UNCHANGED <<WarningReg, RuntimeData>>]_vars

\* C7: on the 64-condition instance EC_getErrors returns exactly the bits of
\* the conditions escalated by EC_poll or found faulted by EC_checkError
\* since the last EC_clearErr, and changes nothing.
C7_GetErrorsIsUnion ==
    [][op' = "getErrors" =>
          /\ NumberOfErrors = RegBits
          /\ ret' = raised.polled \cup raised.forced
          /\ UNCHANGED <<ErrorReg, WarningReg, RuntimeData, Errors, NumberOfErrors, tick>>]_vars

\* EC_getErrors returned bit 0 for a condition EC_poll escalated and bit 32
\* for a condition EC_checkError found faulted.
C7_Witness ==
    /\ op = "getErrors"
    /\ ret = {0, IntBits}
    /\ raised.polled = {0}
    /\ raised.forced = {IntBits}

\* C8: WarningCnt of a condition with WarningsToError >= 1 is below
\* WarningsToError.
C8_WarningCntBelowThreshold ==
    \A i \in Conds :
        Errors[i].WarningsToError >= 1 =>
            RuntimeData[i].WarningCnt < Errors[i].WarningsToError

\* EC_poll escalated a condition that needs more than one warning.
C8_Witness ==
    \E i \in raised.polled :
        /\ Errors[i].WarningsToError > 1
        /\ i \in ErrorReg
        /\ RuntimeData[i].WarningCnt = 0

\* C9 (as claimed): the cooldown sweep of EC_poll that clears WarningPending
\* leaves WarningCnt as it was.
C9_SweepKeepsWarningCnt ==
    [][op' = "poll" =>
          \A i \in Conds :
              (RuntimeData[i].WarningPending = 1 /\ RuntimeData'[i].WarningPending = 0)
                 => RuntimeData'[i].WarningCnt = RuntimeData[i].WarningCnt]_vars

\* C10: while EC_poll keeps being called and the tick keeps advancing, a set
\* warning bit is eventually cleared, whatever the check functions return and
\* whatever EC_checkError and EC_clearErr calls are interleaved.  The horizon
\* of the model may end inside the cooldown of the last registration event.
C10_WarningEventuallyCleared ==
    (0 \in WarningReg)
        ~> \/ 0 \notin WarningReg
           \/ /\ elapsed = MaxElapsed
              /\ elapsed - hist[0].regAt < Ticks(Errors[0].TimeToResetWarning)

\* Polled alone, a condition that needs more than one warning was registered
\* as a warning and the cooldown sweep of a later EC_poll cleared the bit.
C10_Witness ==
    /\ op = "poll"
    /\ \E i \in PredIdx :
          /\ Errors[i].WarningsToError > 1
          /\ Ticks(Errors[i].TimeToResetWarning) > 0
          /\ hist[i].clean
          /\ hist[i].episodes > 0
          /\ elapsed - hist[i].regAt >= Ticks(Errors[i].TimeToResetWarning)
          /\ i \notin WarningReg
          /\ RuntimeData[i].WarningPending = 0

\* The check functions the last operation found faulted.
FaultedConds == {called[j][1] : j \in {n \in 1 .. Len(called) : called[n][2] = EC_ERR}}

\* A step is a registration event of condition i: its observed registration
\* time changes, WarningCnt grows, WarningPending becomes set, or the warning
\* or the error bit becomes set.
RegistrationEvent(i) ==
    \/ hist'[i].regAt # hist[i].regAt
    \/ RuntimeData'[i].WarningCnt > RuntimeData[i].WarningCnt
    \/ RuntimeData'[i].WarningPending > RuntimeData[i].WarningPending
    \/ i \in WarningReg' \ WarningReg
    \/ i \in ErrorReg' \ ErrorReg

\* C11: after EC_clearErr at tick t, no EC_poll at a tick below
\* t + TimeToErrorRegister(i) is a registration event of condition i,
\* whatever the check functions return.
C11_ClearRestartsDebounce ==
    [][op' = "poll" =>
          \A i \in Conds :
              (hist[i].clearAt >= 0
                  /\ elapsed < hist[i].clearAt + Ticks(Errors[i].TimeToErrorRegister))
                 => ~RegistrationEvent(i)]_vars

\* EC_poll found a condition faulted inside the debounce window that the
\* last EC_clearErr opened, and registered nothing for it.
C11_Witness ==
    /\ op = "poll"
    /\ \E i \in FaultedConds :
          /\ hist[i].clearAt >= 0
          /\ elapsed < hist[i].clearAt + Ticks(Errors[i].TimeToErrorRegister)
          /\ hist[i].regAt < hist[i].clearAt
          /\ i \notin ErrorReg
          /\ RuntimeData[i].WarningPending = 0

\* C12: EC_checkError(i) leaves the warning register, every runtime field of
\* every condition and every bit of the error register other than bit i as
\* they were.
C12_CheckErrorFrame ==
    [][op' = "checkError" =>
          /\ ErrorReg' \ {arg'} = ErrorReg \ {arg'}
          /\ UNCHANGED <<WarningReg, RuntimeData>>]_vars

\* EC_checkError called a check function, found the condition faulted and
\* set its bit while another error bit and a warning were registered.
C12_Witness ==
    /\ op = "checkError"
    /\ Len(called) = 1
    /\ ret = EC_ERR
    /\ arg \in ErrorReg
    /\ ErrorReg # {arg}
    /\ WarningReg # {}
    /\ \E i \in Conds : RuntimeData[i].WarningPending = 1

\* C13 (as claimed): the state EC_clearErr leaves is the state a second
\* EC_clearErr at the same tick leaves, and in it both registers are 0 and
\* WarningCnt and WarningPending of every condition are 0.
C13_ClearErrIdempotentZero ==
    op = "clearErr" =>
        /\ RuntimeData = [i \in Conds |-> ClearRuntime(RuntimeData[i], tick)]
        /\ ErrorReg \cup WarningReg = {}
        /\ \A i \in Conds :
              RuntimeData[i].WarningCnt + RuntimeData[i].WarningPending = 0

\* C14 (as claimed): a call of EC_getOneError or EC_checkError that returns
\* had an index in 0..63; an index of 64 or more fails the precondition check.
C14_IndexBelow64 ==
    op \in {"getOneError", "checkError"} => arg < RegBits

\* C15 (as claimed): while no tick source is registered, EC_poll and
\* EC_clearErr make no invalid access and read the tick as 0, so that every
\* timestamp they store is 0.
C15_UnregisteredTickIsZero ==
    tick = NoTick =>
        /\ op # "fault"
        /\ \A i \in Conds :
              /\ RuntimeData[i].LastNoErr = T32(0)
              /\ RuntimeData[i].LastReg = T32(0)

\* C16 (as claimed): in each unsigned time base, with one wraparound of the
\* tick between the stored timestamp and the current tick, the debounce and
\* the cooldown comparison give what an unbounded counter gives: the elapsed
\* time is at least the threshold.
C16_ElapsedModuloWidth ==
    op \in {"debounce", "cooldown"} => (ret <=> arg.delta >= arg.threshold)

\* C17: polled from tick 0 on a zero-initialised instance, a poll is a
\* registration event of a condition only if it finds the condition faulted
\* TimeToErrorRegister ticks or more after the start; so a condition that is
\* fault-free from before that time on never has its warning bit or its
\* error bit set, and its WarningCnt stays 0.
C17_NoRegistrationBeforeDebounce ==
    [][(op' = "poll" /\ tick = T32(elapsed)) =>
          \A i \in Conds :
              RegistrationEvent(i) =>
                  /\ i \in FaultedConds'
                  /\ elapsed >= Ticks(Errors[i].TimeToErrorRegister)]_vars

\* Polled from tick 0, a poll after the first tick found a condition faulted
\* before TimeToErrorRegister ticks had elapsed: nothing has been registered
\* for it.
C17_Witness ==
    /\ op = "poll"
    /\ tick = T32(elapsed)
    /\ \E i \in FaultedConds :
          /\ 0 < elapsed
          /\ elapsed < Ticks(Errors[i].TimeToErrorRegister)
          /\ hist[i].clean
          /\ hist[i].regAt = -1
          /\ i \notin WarningReg \cup ErrorReg
          /\ RuntimeData[i].WarningCnt = 0

\* C18 (as claimed): when EC_init returns, the error register and the
\* warning register are 0, whatever they held before the call.
C18_InitClearsRegisters ==
    op = "init" => ErrorReg = {} /\ WarningReg = {}

InWindow(i) ==
    /\ hist[i].warnAt >= 0
    /\ elapsed < hist[i].warnAt + Ticks(Errors[i].TimeToResetWarning)

\* C20 (as claimed): from the tick t at which a warning is raised for
\* condition i until t + TimeToResetWarning(i), WarningPending of i is set
\* and no EC_poll is a registration event of i, whatever EC_poll,
\* EC_checkError and EC_clearErr calls are interleaved.
C20_PendingWholeWindow ==
    [][\A i \in Conds :
          InWindow(i) =>
              /\ RuntimeData[i].WarningPending = 1
              /\ op' = "poll" => ~RegistrationEvent(i)]_vars

\* C20 (amended): the same as long as EC_clearErr has not been called since
\* the warning was raised.
C20_PendingUntilCooldownOrClear ==
    [][\A i \in Conds :
          (InWindow(i) /\ ~hist[i].clearedSince) =>
              /\ RuntimeData[i].WarningPending = 1
              /\ op' = "poll" => ~RegistrationEvent(i)]_vars

\* At a later tick inside the cooldown window of a warning, with no
\* EC_clearErr since, EC_poll ran and did not call the check function.
C20_Witness ==
    /\ op = "poll"
    /\ \E i \in PredIdx :
          /\ InWindow(i)
          /\ ~hist[i].clearedSince
          /\ hist[i].warnAt < elapsed
          /\ i \notin CalledConds
          /\ i \notin ErrorReg
          /\ RuntimeData[i].WarningPending = 1

\* C21 (as claimed): in every reachable state no condition has both its
\* error bit and its warning bit set.
C21_ErrorAndWarningDisjoint == ErrorReg \cap WarningReg = {}

\* What the check function of condition i returned in the call log.
Returned(log, i) ==
    IF \E j \in 1 .. Len(log) : log[j][1] = i
    THEN log[CHOOSE j \in 1 .. Len(log) : log[j][1] = i][2]
    ELSE EC_NERR

\* Lines 68-97 run for condition i alone on the instance as it is.
PollAlone(i, error) ==
    PollSweep(PollCheck(PollStart, i, error,
                        [noErr |-> tick, debounce |-> tick, reg |-> tick, sweep |-> tick]),
              i, tick)

\* C22: with check functions returning 0 or 1, EC_poll leaves bit i of both
\* registers and the runtime record of every condition i as processing
\* condition i alone leaves them, and leaves the register bits at positions
\* NumberOfErrors and above as they were; EC_checkError(i) leaves every
\* register bit other than bit i and every runtime record other than that
\* of condition i as they were.
C22_ConditionsIndependent ==
    [][/\ op' = "poll" =>
            /\ \A i \in Conds :
                  \E solo \in {PollAlone(i, Returned(called', i))} :
                      /\ i \in ErrorReg' <=> i \in solo.ErrorReg
                      /\ i \in WarningReg' <=> i \in solo.WarningReg
                      /\ RuntimeData'[i] = solo.RuntimeData[i]
            /\ ErrorReg' \ Conds = ErrorReg \ Conds
            /\ WarningReg' \ Conds = WarningReg \ Conds
       /\ op' = "checkError" =>
            /\ ErrorReg' \ {arg'} = ErrorReg \ {arg'}
            /\ WarningReg' \ {arg'} = WarningReg \ {arg'}
            /\ \A j \in Conds \ {arg'} : RuntimeData'[j] = RuntimeData[j]]_vars

\* On the two-condition instance EC_poll registered a warning for
\* condition 0 while the error bit of condition 1 was set and its cooldown
\* had expired: the sweep of condition 1 ran after the registration and the
\* warning bit of condition 0 is set.
C22_Witness ==
    /\ op = "poll"
    /\ NumberOfErrors = 2
    /\ hist[0].warnAt = elapsed
    /\ 0 \in WarningReg
    /\ RuntimeData[0].WarningPending = 1
    /\ 1 \in ErrorReg
    /\ 1 \notin CalledConds
    /\ TimeGeq(TimeSub(tick, RuntimeData[1].LastReg), Errors[1].TimeToResetWarning)

\* C23 (as claimed): when the tick advances while EC_poll runs, the tick
\* stored into LastReg at a registration event is the tick the debounce
\* comparison of that poll used, and the cooldown sweep of that poll uses
\* the same tick; so does the sweep of a poll that stored LastNoErr.
C23_SingleNowPerPoll ==
    [][op' = "poll" =>
          \A i \in Conds :
              /\ RegistrationEvent(i) =>
                    /\ RuntimeData'[i].LastReg = arg'.debounce
                    /\ arg'.sweep = arg'.debounce
              /\ <<i, EC_NERR>> \in {called'[j] : j \in 1 .. Len(called')} =>
                    /\ RuntimeData'[i].LastNoErr = arg'.noErr
                    /\ arg'.sweep = arg'.noErr]_vars

====
